---- MODULE Spec2Model ----
(***************************************************************************)
(* Model of homework.py: the poll / parse / notify loop of the homework    *)
(* status bot.  One action per step of main(): the start-up token check,   *)
(* one pass through the body of `while True` (try / except), and the       *)
(* sleep of the `finally` clause.                                          *)
(*                                                                         *)
(* Python values are modelled as records with a "type" tag.  A call that   *)
(* can raise returns a record with the fields raised/exc (exc = str(error))*)
(* next to its return value.  The Russian message texts of the source are  *)
(* written here in ASCII; each distinct source text has one distinct       *)
(* rendering.                                                              *)
(***************************************************************************)
EXTENDS Integers, Sequences, FiniteSets, TLC

(* Largest epoch second the wall clock and the server's current_date take. *)
MaxDate == 1

RETRY_PERIOD == 600

HTTP_OK == 200

ENDPOINT == "https://practicum.yandex.ru/api/user_api/homework_statuses/"

VerdictKeys == {"approved", "reviewing", "rejected"}

HOMEWORK_VERDICTS(status) ==
    CASE status = "approved" -> "Work checked: the reviewer liked everything. Hooray!"
      [] status = "reviewing" -> "Work was taken for review by the reviewer."
      [] status = "rejected" -> "Work checked: the reviewer has remarks."

WAITING_TEXT == "Waiting for a new work to be checked."

(***************************************************************************)
(* str() of an integer, and strftime('%Y-%m-%d %H:%M:%S') of an epoch      *)
(* second of the first hour of 1970 (UTC).                                 *)
(***************************************************************************)
Digit(d) ==
    CASE d = 0 -> "0" [] d = 1 -> "1" [] d = 2 -> "2" [] d = 3 -> "3"
      [] d = 4 -> "4" [] d = 5 -> "5" [] d = 6 -> "6" [] d = 7 -> "7"
      [] d = 8 -> "8" [] d = 9 -> "9"

RECURSIVE IntStr(_)
IntStr(n) == IF n < 10 THEN Digit(n) ELSE IntStr(n \div 10) \o Digit(n % 10)

TwoDigits(n) == Digit((n \div 10) % 10) \o Digit(n % 10)

Strftime(t) ==
    "1970-01-01 00:" \o TwoDigits((t \div 60) % 60) \o ":" \o TwoDigits(t % 60)

(***************************************************************************)
(* The values the environment can hand to the program.                     *)
(***************************************************************************)
EnvValues == {"None", "", "token"}

Dates == 0..MaxDate

IntDate(n) == [type |-> "int", val |-> n]

StrDate == [type |-> "str", val |-> 0]

CurrentDates == {IntDate(n) : n \in Dates} \cup {StrDate}

Homework(keys, name, status) ==
    [type |-> "dict", keys |-> keys, homework_name |-> name, status |-> status]

FirstHomeworks ==
    { Homework({"homework_name", "status"}, "X", s) :
        s \in {"approved", "rejected", "unknown_code"} }
    \cup { Homework({"status"}, "", "approved"),
           Homework({"homework_name"}, "X", "") }

Approved == Homework({"homework_name", "status"}, "X", "approved")

Later == Homework({"homework_name", "status"}, "Y", "reviewing")

ListValue(items) == [type |-> "list", items |-> items]

StrValue == [type |-> "str", items |-> <<>>]

(* A decoded JSON document, or the undecoded Response object. *)
Payload(type, keys, homeworks, current_date) ==
    [type |-> type, keys |-> keys, homeworks |-> homeworks,
     current_date |-> current_date]

NoFields(type) == Payload(type, {}, StrValue, StrDate)

WellFormed(items, current_date) ==
    Payload("dict", {"homeworks", "current_date"}, ListValue(items), current_date)

(* The documents the polled API answers with in this model: every first   *)
(* entry once, an empty list and an approved work under every             *)
(* current_date, a list of two entries, and the malformed documents.      *)
Payloads ==
    { WellFormed(<<h>>, IntDate(MaxDate)) : h \in FirstHomeworks }
    \cup { WellFormed(l, d) : l \in {<<>>, <<Approved>>}, d \in CurrentDates }
    \cup { WellFormed(<<Approved, Later>>, IntDate(MaxDate)),
           Payload("dict", {"homeworks", "current_date"}, StrValue, IntDate(0)),
           Payload("dict", {"homeworks"}, ListValue(<<>>), StrDate),
           Payload("dict", {"current_date"}, StrValue, IntDate(0)),
           NoFields("list") }

(* What requests.get does: raise, or give a Response with a status code   *)
(* and a body that is JSON (json) or not.                                  *)
HttpReply(kind, status_code, is_json, json) ==
    [kind |-> kind, status_code |-> status_code, is_json |-> is_json, json |-> json]

HttpReplies ==
    { HttpReply("response", HTTP_OK, TRUE, p) : p \in Payloads }
    \cup { HttpReply("exception", 0, FALSE, NoFields("Response")),
           HttpReply("response", 500, FALSE, NoFields("Response")),
           HttpReply("response", HTTP_OK, FALSE, NoFields("Response")) }

(***************************************************************************)
(* Results of calls.                                                       *)
(***************************************************************************)
Return(val) == [raised |-> FALSE, exc |-> "", val |-> val]

Raise(exc) == [raised |-> TRUE, exc |-> exc, val |-> ""]

(* One call of bot.send_message: the text passed, the candidate it stands *)
(* for, and whether Telegram accepted it.                                  *)
Attempt(text, candidate, ok) == [text |-> text, candidate |-> candidate, ok |-> ok]

(* check_tokens with any() in place of all(). *)
check_tokens_any(env) ==
    \E k \in {"TELEGRAM_TOKEN", "PRACTICUM_TOKEN", "TELEGRAM_CHAT_ID"} :
        env[k] \notin {"None", ""}

check_tokens(env) ==
    \A k \in {"TELEGRAM_TOKEN", "PRACTICUM_TOKEN", "TELEGRAM_CHAT_ID"} :
        env[k] \notin {"None", ""}

(* send_message without its except clause: TelegramError gets out. *)
send_message_uncaught(message, tg_ok) ==
    IF tg_ok THEN Return(TRUE) ELSE Raise("TelegramError")

(* tg_ok: whether bot.send_message returns (TRUE) or raises TelegramError. *)
send_message(message, tg_ok) ==
    IF tg_ok THEN Return(TRUE) ELSE Return(FALSE)

get_api_answer(timestamp, reply) ==
    IF reply.kind = "exception"
    THEN Raise("API request error: ConnectionError")
    ELSE IF reply.status_code # HTTP_OK
    THEN Raise(ENDPOINT \o " - is unavailable. API response code: "
               \o IntStr(reply.status_code))
    ELSE IF reply.is_json
    THEN Return(reply.json)
    ELSE Return(NoFields("Response"))

(* check_response without its test for the "current_date" key. *)
check_response_no_date(response) ==
    IF response.type # "dict"
    THEN Raise("API response type error")
    ELSE IF "homeworks" \notin response.keys
    THEN Raise("'Empty response from API'")
    ELSE IF response.homeworks.type # "list"
    THEN Raise("Homeworks is not a list")
    ELSE Return(response.homeworks.items)

check_response(response) ==
    IF response.type # "dict"
    THEN Raise("API response type error")
    ELSE IF "homeworks" \notin response.keys \/ "current_date" \notin response.keys
    THEN Raise("'Empty response from API'")
    ELSE IF response.homeworks.type # "list"
    THEN Raise("Homeworks is not a list")
    ELSE Return(response.homeworks.items)

(* parse_status without its test for the "status" key. *)
parse_status_unchecked(homework) ==
    IF "homework_name" \notin homework.keys
    THEN Raise("'The API response has no key \"homework_name\"!'")
    ELSE IF homework.status \notin VerdictKeys
    THEN Raise("Unknown homework status in the API response")
    ELSE Return("The review status of work \"" \o homework.homework_name
                \o "\" changed. " \o HOMEWORK_VERDICTS(homework.status))

parse_status(homework) ==
    IF "homework_name" \notin homework.keys
    THEN Raise("'The API response has no key \"homework_name\"!'")
    ELSE IF "status" \notin homework.keys
    THEN Raise("'The API response has no key \"status\"!'")
    ELSE IF homework.status \notin VerdictKeys
    THEN Raise("Unknown homework status in the API response")
    ELSE Return("The review status of work \"" \o homework.homework_name
                \o "\" changed. " \o HOMEWORK_VERDICTS(homework.status))

(* The request made by get_api_answer, as main() can observe it. *)
Fetch(from_date) == [ev |-> "fetch", arg |-> from_date]

Slept(secs) == [ev |-> "sleep", arg |-> secs]

(* Result of send_status_message: its return pair or the exception it     *)
(* lets through, the calls of bot.send_message it made, whether fetch and *)
(* validation succeeded, the value of its local current_timestamp, and    *)
(* the verdict parse_status gave (parsed).                                 *)
StatusResult(raised, exc, verdict, verdict_sent, attempts, valid, local_ts, parsed) ==
    [raised |-> raised, exc |-> exc, verdict |-> verdict,
     verdict_sent |-> verdict_sent, attempts |-> attempts, valid |-> valid,
     local_ts |-> local_ts, parsed |-> parsed]

(* send_status_message reading the last entry of the list, not the first. *)
send_status_message_last(timestamp, reply, tg) ==
    LET response == get_api_answer(timestamp, reply)
        homeworks == check_response(response.val)
        local_ts == response.val.current_date
        verdict == parse_status(homeworks.val[Len(homeworks.val)])
        text == "[" \o Strftime(local_ts.val) \o "] " \o verdict.val
        sent == send_message(text, tg[1])
    IN  IF response.raised
        THEN StatusResult(TRUE, response.exc, "", FALSE, <<>>, FALSE, StrDate, "")
        ELSE IF homeworks.raised
        THEN StatusResult(TRUE, homeworks.exc, "", FALSE, <<>>, FALSE, StrDate, "")
        ELSE IF homeworks.val = <<>>
        THEN StatusResult(FALSE, "", "", FALSE, <<>>, TRUE, local_ts, "")
        ELSE IF local_ts.type # "int"
        THEN StatusResult(TRUE, "an integer is required (got type str)", "", FALSE,
                          <<>>, TRUE, local_ts, "")
        ELSE IF verdict.raised
        THEN StatusResult(TRUE, verdict.exc, "", FALSE, <<>>, TRUE, local_ts, "")
        ELSE IF sent.raised
        THEN StatusResult(TRUE, sent.exc, "", FALSE,
                          <<Attempt(text, verdict.val, FALSE)>>, TRUE, local_ts,
                          verdict.val)
        ELSE IF sent.val
        THEN StatusResult(FALSE, "", verdict.val, TRUE,
                          <<Attempt(text, verdict.val, TRUE)>>, TRUE, local_ts,
                          verdict.val)
        ELSE StatusResult(FALSE, "", "", FALSE,
                          <<Attempt(text, verdict.val, FALSE)>>, TRUE, local_ts,
                          verdict.val)

send_status_message(timestamp, reply, tg) ==
    LET response == get_api_answer(timestamp, reply)
        homeworks == check_response(response.val)
        local_ts == response.val.current_date
        verdict == parse_status(homeworks.val[1])
        text == "[" \o Strftime(local_ts.val) \o "] " \o verdict.val
        sent == send_message(text, tg[1])
    IN  IF response.raised
        THEN StatusResult(TRUE, response.exc, "", FALSE, <<>>, FALSE, StrDate, "")
        ELSE IF homeworks.raised
        THEN StatusResult(TRUE, homeworks.exc, "", FALSE, <<>>, FALSE, StrDate, "")
        ELSE IF homeworks.val = <<>>
        THEN StatusResult(FALSE, "", "", FALSE, <<>>, TRUE, local_ts, "")
        ELSE IF local_ts.type # "int"
        THEN StatusResult(TRUE, "an integer is required (got type str)", "", FALSE,
                          <<>>, TRUE, local_ts, "")
        ELSE IF verdict.raised
        THEN StatusResult(TRUE, verdict.exc, "", FALSE, <<>>, TRUE, local_ts, "")
        ELSE IF sent.raised
        THEN StatusResult(TRUE, sent.exc, "", FALSE,
                          <<Attempt(text, verdict.val, FALSE)>>, TRUE, local_ts,
                          verdict.val)
        ELSE IF sent.val
        THEN StatusResult(FALSE, "", verdict.val, TRUE,
                          <<Attempt(text, verdict.val, TRUE)>>, TRUE, local_ts,
                          verdict.val)
        ELSE StatusResult(FALSE, "", "", FALSE,
                          <<Attempt(text, verdict.val, FALSE)>>, TRUE, local_ts,
                          verdict.val)

(* Result of send_waiting_message and send_error_message: the returned    *)
(* pair, or the exception let through, and the bot.send_message calls.    *)
GateResult(raised, exc, verdict, verdict_sent, attempts) ==
    [raised |-> raised, exc |-> exc, prev_verdict |-> verdict,
     prev_verdict_sent |-> verdict_sent, attempts |-> attempts]

(* send_waiting_message without its guard: the waiting text is sent in   *)
(* every pass that gets to it.                                            *)
send_waiting_message_unguarded(verdict, verdict_sent, tg_ok) ==
    LET status_message == WAITING_TEXT
        sent == send_message(status_message, tg_ok)
    IN  IF sent.val
        THEN GateResult(FALSE, "", status_message, TRUE,
                        <<Attempt(status_message, status_message, TRUE)>>)
        ELSE GateResult(FALSE, "", verdict, verdict_sent,
                        <<Attempt(status_message, status_message, FALSE)>>)

send_waiting_message(verdict, verdict_sent, tg_ok) ==
    LET status_message == WAITING_TEXT
        sent == send_message(status_message, tg_ok)
    IN  IF ~verdict_sent
        THEN IF sent.raised
             THEN GateResult(TRUE, sent.exc, verdict, verdict_sent,
                             <<Attempt(status_message, status_message, FALSE)>>)
             ELSE IF sent.val
             THEN GateResult(FALSE, "", status_message, TRUE,
                             <<Attempt(status_message, status_message, TRUE)>>)
             ELSE GateResult(FALSE, "", verdict, verdict_sent,
                             <<Attempt(status_message, status_message, FALSE)>>)
        ELSE GateResult(FALSE, "", verdict, verdict_sent, <<>>)

(* send_error_message without its guard: every error text is sent. *)
send_error_message_unguarded(error_message, verdict, verdict_sent, tg_ok) ==
    LET sent == send_message(error_message, tg_ok)
    IN  GateResult(FALSE, "", error_message, TRUE,
                   <<Attempt(error_message, error_message, sent.val)>>)

send_error_message(error_message, verdict, verdict_sent, tg_ok) ==
    LET sent == send_message(error_message, tg_ok)
    IN  IF error_message # verdict /\ ~verdict_sent
        THEN IF sent.raised
             THEN GateResult(TRUE, sent.exc, verdict, verdict_sent,
                             <<Attempt(error_message, error_message, FALSE)>>)
             ELSE GateResult(FALSE, "", error_message, TRUE,
                             <<Attempt(error_message, error_message, sent.val)>>)
        ELSE GateResult(FALSE, "", verdict, verdict_sent, <<>>)

(* main() taking over the current_date of a validated response. *)
NextTimestamp_advanced(timestamp, status) ==
    IF status.valid /\ status.local_ts.type = "int"
    THEN status.local_ts.val ELSE timestamp

(* The cursor main() passes to the next send_status_message: main never   *)
(* assigns its current_timestamp inside the loop.                         *)
NextTimestamp(timestamp, status) == timestamp

(* The sleep in an else clause instead of finally: skipped after a failure. *)
AfterPass_else(failed) == IF failed THEN "poll" ELSE "sleep"

(* Where main() goes after the try / except of one pass: the finally      *)
(* clause sleeps whether or not the pass failed.                          *)
AfterPass(failed) == "sleep"

(* One pass through the body of `while True`, up to the finally clause.   *)
(* tg[i] is the outcome of the i-th call of bot.send_message of the pass. *)
PassResult(raised, verdict, verdict_sent, attempts, class, candidate, status) ==
    [raised |-> raised, prev_verdict |-> verdict, prev_verdict_sent |-> verdict_sent,
     attempts |-> attempts, class |-> class, candidate |-> candidate,
     valid |-> status.valid, local_ts |-> status.local_ts]

main_pass(timestamp, verdict, verdict_sent, reply, tg) ==
    LET status == send_status_message(timestamp, reply, tg)
        waiting == send_waiting_message(verdict, verdict_sent,
                                        tg[Len(status.attempts) + 1])
        tried == status.attempts \o
                 (IF ~status.raised /\ ~status.verdict_sent
                  THEN waiting.attempts ELSE <<>>)
        failed == status.raised \/ (~status.verdict_sent /\ waiting.raised)
        error_message == "Bot failure: " \o
                         (IF status.raised THEN status.exc ELSE waiting.exc)
        error == send_error_message(error_message, verdict, verdict_sent,
                                    tg[Len(tried) + 1])
    IN  IF failed
        THEN PassResult(error.raised, error.prev_verdict, error.prev_verdict_sent,
                        tried \o error.attempts, "error", error_message, status)
        ELSE IF status.verdict_sent
        THEN PassResult(FALSE, status.verdict, TRUE, tried, "status",
                        status.parsed, status)
        ELSE PassResult(FALSE, waiting.prev_verdict, waiting.prev_verdict_sent, tried,
                        IF status.parsed # "" THEN "status" ELSE "waiting",
                        IF status.parsed # "" THEN status.parsed ELSE WAITING_TEXT,
                        status)

(* The candidate of the last bot.send_message call Telegram accepted. *)
RECURSIVE LastAccepted(_, _)
LastAccepted(attempts, before) ==
    IF attempts = <<>> THEN before
    ELSE LET a == attempts[Len(attempts)]
         IN  IF a.ok THEN a.candidate
             ELSE LastAccepted(SubSeq(attempts, 1, Len(attempts) - 1), before)

(* How many entries of the event log are kept. *)
LogLen == 3

Logged(log, event) ==
    LET all == Append(log, event)
    IN  IF Len(all) > LogLen THEN SubSeq(all, Len(all) - LogLen + 1, Len(all)) ELSE all

NoPass ==
    [class |-> "none", candidate |-> "", attempts |-> <<>>, valid |-> FALSE,
     local_ts |-> StrDate, reply |-> HttpReply("none", 0, FALSE, NoFields("Response")),
     from_date |-> 0, verdict_before |-> "", accepted_before |-> "", failed |-> FALSE]

(***************************************************************************)
(* State.  pc, env, current_timestamp, prev_verdict, prev_verdict_sent and *)
(* propagating (an exception is passing through the finally clause) are    *)
(* the program's; accepted, pass, before and log record what happened:     *)
(* the last text Telegram accepted, the last pass and the one before it,   *)
(* and the last requests and sleeps.                                       *)
(***************************************************************************)
VARIABLES pc, env, current_timestamp, prev_verdict, prev_verdict_sent,
          propagating, accepted, pass, before, log, call, result

vars == <<pc, env, current_timestamp, prev_verdict, prev_verdict_sent,
          propagating, accepted, pass, before, log, call, result>>

(* call and result hold one application of a function on its own (see    *)
(* PureSpec); main() leaves them alone.                                   *)
NoCall == [fn |-> "none"]

Init ==
    /\ pc = "start"
    /\ env \in [{"TELEGRAM_TOKEN", "PRACTICUM_TOKEN", "TELEGRAM_CHAT_ID"} -> EnvValues]
    /\ current_timestamp = 0
    /\ prev_verdict = ""
    /\ prev_verdict_sent = FALSE
    /\ propagating = FALSE
    /\ accepted = ""
    /\ pass = NoPass
    /\ before = NoPass
    /\ log = <<>>
    /\ call = NoCall
    /\ result = NoCall

(* main(), lines 139-142: sys.exit when a token is missing. *)
MainExit ==
    /\ pc = "start"
    /\ ~check_tokens(env)
    /\ pc' = "exited"
    /\ UNCHANGED <<env, current_timestamp, prev_verdict, prev_verdict_sent,
                   propagating, accepted, pass, before, log, call, result>>

(* main(), lines 143-146: the state before the loop. *)
MainStart ==
    /\ pc = "start"
    /\ check_tokens(env)
    /\ \E now \in Dates : current_timestamp' = now
    /\ prev_verdict' = ""
    /\ prev_verdict_sent' = FALSE
    /\ pc' = "poll"
    /\ UNCHANGED <<env, propagating, accepted, pass, before, log, call, result>>

(* main(), lines 149-171: the try and except blocks of one pass. *)
MainPass ==
    /\ pc = "poll"
    /\ \E reply \in HttpReplies, tg \in [1..2 -> BOOLEAN] :
         \E out \in {main_pass(current_timestamp, prev_verdict, prev_verdict_sent,
                              reply, tg)} :
             /\ prev_verdict' = out.prev_verdict
             /\ prev_verdict_sent' = out.prev_verdict_sent
             /\ current_timestamp' = NextTimestamp(current_timestamp, out)
             /\ propagating' = out.raised
             /\ pc' = AfterPass(out.class = "error")
             /\ accepted' = LastAccepted(out.attempts, accepted)
             /\ pass' = [class |-> out.class, candidate |-> out.candidate,
                         attempts |-> out.attempts, valid |-> out.valid,
                         local_ts |-> out.local_ts, reply |-> reply,
                         from_date |-> current_timestamp,
                         verdict_before |-> prev_verdict,
                         accepted_before |-> accepted,
                         failed |-> out.class = "error"]
             /\ before' = pass
             /\ log' = Logged(log, Fetch(current_timestamp))
    /\ UNCHANGED <<env, call, result>>

(* main(), lines 172-173: the finally clause; an exception that left the  *)
(* except block ends the loop after the sleep.                            *)
MainSleep ==
    /\ pc = "sleep"
    /\ log' = Logged(log, Slept(RETRY_PERIOD))
    /\ pc' = IF propagating THEN "terminated" ELSE "poll"
    /\ UNCHANGED <<env, current_timestamp, prev_verdict, prev_verdict_sent,
                   propagating, accepted, pass, before, call, result>>

Next == MainExit \/ MainStart \/ MainPass \/ MainSleep

Spec == Init /\ [][Next]_vars

(* time.sleep(RETRY_PERIOD) returns: the finally clause completes. *)
FairSpec == Spec /\ WF_vars(MainSleep)

(***************************************************************************)
(* The functions on their own: parse_status, check_response and one pass  *)
(* of main() applied to inputs drawn from wider sets than the loop above  *)
(* is run on.                                                              *)
(***************************************************************************)
AllHomeworks ==
    { Homework(keys, name, status) :
        keys \in SUBSET {"homework_name", "status"},
        name \in {"X", "Y"},
        status \in {"approved", "reviewing", "rejected", "pending", "unknown_code"} }

AllPayloads ==
    { Payload(type, keys, homeworks, d) :
        type \in {"dict", "list", "Response"},
        keys \in SUBSET {"homeworks", "current_date"},
        homeworks \in {StrValue, ListValue(<<>>), ListValue(<<Approved>>),
                       ListValue(<<Approved, Later>>)},
        d \in CurrentDates }

(* What can follow the first entry of a list. *)
Tails ==
    { <<>>, <<Later>>,
      <<Homework({"homework_name"}, "Y", ""), Approved>> }

(* Values of (prev_verdict, prev_verdict_sent) the loop gets to. *)
Histories ==
    { <<"", FALSE>>, <<WAITING_TEXT, TRUE>>,
      <<parse_status(Approved).val, TRUE>>,
      <<"Bot failure: API request error: ConnectionError", TRUE>> }

PureInit ==
    /\ pc = "unit"
    /\ env = [k \in {"TELEGRAM_TOKEN", "PRACTICUM_TOKEN", "TELEGRAM_CHAT_ID"} |-> "token"]
    /\ current_timestamp = 0
    /\ prev_verdict = ""
    /\ prev_verdict_sent = FALSE
    /\ propagating = FALSE
    /\ accepted = ""
    /\ pass = NoPass
    /\ before = NoPass
    /\ log = <<>>
    /\ call = NoCall
    /\ result = NoCall

MainVars ==
    <<pc, env, current_timestamp, prev_verdict, prev_verdict_sent,
      propagating, accepted, pass, before, log>>

ApplyParseStatus ==
    /\ pc = "unit" /\ call = NoCall
    /\ \E homework \in AllHomeworks :
         /\ call' = [fn |-> "parse_status", homework |-> homework]
         /\ result' = parse_status(homework)
    /\ UNCHANGED MainVars

ApplyCheckResponse ==
    /\ pc = "unit" /\ call = NoCall
    /\ \E response \in AllPayloads :
         /\ call' = [fn |-> "check_response", response |-> response]
         /\ result' = check_response(response)
    /\ UNCHANGED MainVars

(* One pass of main() on two responses that have the same first entry and *)
(* current_date and differ after the first entry.                         *)
ApplyMainPass ==
    /\ pc = "unit" /\ call = NoCall
    /\ \E first \in AllHomeworks, a \in Tails, b \in Tails, d \in CurrentDates,
          timestamp \in Dates, history \in Histories, tg \in [1..2 -> BOOLEAN] :
         /\ a # b
         /\ call' = [fn |-> "main_pass",
                     a |-> WellFormed(<<first>> \o a, d),
                     b |-> WellFormed(<<first>> \o b, d),
                     history |-> history]
         /\ result' =
              [a |-> main_pass(timestamp, history[1], history[2],
                               HttpReply("response", HTTP_OK, TRUE,
                                         WellFormed(<<first>> \o a, d)), tg),
               b |-> main_pass(timestamp, history[1], history[2],
                               HttpReply("response", HTTP_OK, TRUE,
                                         WellFormed(<<first>> \o b, d)), tg)]
    /\ UNCHANGED MainVars

PureNext == ApplyParseStatus \/ ApplyCheckResponse \/ ApplyMainPass

PureSpec == PureInit /\ [][PureNext]_vars

(***************************************************************************)
(* Properties.  pass is the last pass through the loop body, before the    *)
(* pass that preceded it.                                                  *)
(***************************************************************************)
Happened(p) == p.class # "none"

Tried(p) == p.attempts # <<>>

TriedCandidate(p) == \E i \in 1..Len(p.attempts) : p.attempts[i].candidate = p.candidate

Delivered(p) ==
    \E i \in 1..Len(p.attempts) :
        p.attempts[i].candidate = p.candidate /\ p.attempts[i].ok

Refused(p) ==
    \E i \in 1..Len(p.attempts) :
        p.attempts[i].candidate = p.candidate /\ ~p.attempts[i].ok

AllAccepted(p) == \A i \in 1..Len(p.attempts) : p.attempts[i].ok

(* C1: in every state of the loop the recorded history prev_verdict is the *)
(* last text Telegram accepted (empty if none): a failed delivery of any   *)
(* candidate leaves it unchanged.                                          *)
C1_HistoryIsLastAccepted ==
    pc \in {"poll", "sleep"} => prev_verdict = accepted

(* C2: the same successful response with a non-empty list in two           *)
(* consecutive passes, Telegram accepting everything, gives exactly one    *)
(* delivery attempt over the two passes; the second pass's candidate is    *)
(* the last accepted text and is not sent.                                 *)
C2_SameResponseOnce ==
    ( /\ before.class = "status" /\ pass.class = "status"
      /\ pass.reply = before.reply
      /\ AllAccepted(before) /\ AllAccepted(pass) )
    => /\ Len(before.attempts) + Len(pass.attempts) = 1
       /\ pass.candidate = pass.accepted_before
       /\ ~Tried(pass)

(* C3: in every pass, whatever the history, a candidate (verdict, waiting  *)
(* text or error text) that differs from the last accepted text is sent.   *)
C3_NothingDroppedButDuplicates ==
    (Happened(pass) /\ pass.candidate # pass.accepted_before) => TriedCandidate(pass)

(* C4: two consecutive failed passes with different error texts both make *)
(* a delivery attempt.                                                     *)
C4_DistinctErrorsBothTried ==
    ( /\ before.class = "error" /\ pass.class = "error"
      /\ before.candidate # pass.candidate )
    => (Tried(before) /\ Tried(pass))

(* C5: two consecutive failed passes with the same error text, the first  *)
(* delivered: the second makes no delivery attempt, so the pair makes one. *)
C5_SameErrorOnce ==
    ( /\ before.class = "error" /\ pass.class = "error"
      /\ before.candidate = pass.candidate
      /\ Delivered(before) )
    => /\ ~Tried(pass)
       /\ Len(before.attempts) + Len(pass.attempts) = 1

C5_Witness ==
    /\ before.class = "error" /\ pass.class = "error"
    /\ before.candidate = pass.candidate
    /\ Delivered(before)
    /\ pc = "sleep"

(* C6: when Telegram refuses a new status verdict, the history after that *)
(* pass is what it was before it, and the next pass with the same verdict *)
(* attempts delivery again.                                                *)
C6_RefusedVerdictKeepsHistory ==
    /\ ( /\ pass.class = "status" /\ Refused(pass)
         /\ pass.candidate # pass.accepted_before )
       => prev_verdict = pass.verdict_before
    /\ ( /\ before.class = "status" /\ Refused(before)
         /\ before.candidate # before.accepted_before
         /\ pass.class = "status" /\ pass.candidate = before.candidate )
       => TriedCandidate(pass)

(* C7: after a pass whose fetch and validation succeeded, the next fetch  *)
(* carries the current_date of that pass's response as from_date.          *)
C7_CursorIsWatermark ==
    ( /\ Happened(before) /\ before.valid /\ before.local_ts.type = "int"
      /\ Happened(pass) )
    => pass.from_date = before.local_ts.val

(* C8: the from_date passed to fetch never decreases from one pass to the *)
(* next, and a pass whose fetch or validation failed leaves the cursor at  *)
(* the value it had.                                                       *)
C8_CursorMonotone ==
    /\ (Happened(before) /\ Happened(pass)) => pass.from_date >= before.from_date
    /\ Happened(pass) => current_timestamp >= pass.from_date
    /\ (Happened(pass) /\ ~pass.valid) => current_timestamp = pass.from_date

C8_Witness ==
    /\ Happened(before) /\ ~before.valid
    /\ Happened(pass) /\ pass.valid /\ pass.local_ts.type = "int"
    /\ pass.local_ts.val # pass.from_date
    /\ pc = "poll"

(* C9: once the loop has started it never ends: after every pass, however *)
(* it failed, the loop gets to the next poll.                              *)
C9_LoopNeverTerminates ==
    [](pc = "sleep" => <>(pc = "poll")) /\ [](pc # "terminated")

C9_Witness ==
    /\ pc = "poll"
    /\ pass.class = "error"
    /\ Refused(pass)
    /\ before.class = "status" /\ Refused(before)

(* C10: between two consecutive polls there is exactly one sleep of the   *)
(* fixed interval: every pass, failed or not, is followed by the sleep     *)
(* and no second fetch comes before it.                                    *)
C10_OneSleepBetweenPolls ==
    /\ \A i \in 1..(Len(log) - 1) :
           /\ log[i].ev = "fetch" => log[i + 1] = Slept(RETRY_PERIOD)
           /\ log[i].ev = "sleep" => log[i + 1].ev = "fetch"
    /\ (Happened(pass) /\ pc = "poll") => log[Len(log)] = Slept(RETRY_PERIOD)

C10_Witness ==
    /\ Len(log) = LogLen
    /\ log[Len(log)].ev = "fetch"
    /\ log[Len(log) - 1] = Slept(RETRY_PERIOD)
    /\ log[Len(log) - 2].ev = "fetch"
    /\ before.failed

(* What the polled API answered in a pass. *)
Decoded(p) ==
    p.reply.kind = "response" /\ p.reply.status_code = HTTP_OK /\ p.reply.is_json

Validated(p) ==
    /\ Decoded(p)
    /\ p.reply.json.type = "dict"
    /\ {"homeworks", "current_date"} \subseteq p.reply.json.keys
    /\ p.reply.json.homeworks.type = "list"

EmptyList(p) == Validated(p) /\ p.reply.json.homeworks.items = <<>>

NotJson(p) ==
    p.reply.kind = "response" /\ p.reply.status_code = HTTP_OK /\ ~p.reply.is_json

UnknownStatus(p) ==
    /\ Validated(p)
    /\ p.reply.json.homeworks.items # <<>>
    /\ p.reply.json.current_date.type = "int"
    /\ {"homework_name", "status"} \subseteq p.reply.json.homeworks.items[1].keys
    /\ p.reply.json.homeworks.items[1].status \notin {"approved", "reviewing", "rejected"}

IsErrorText(text) == Len(text) >= 13 /\ SubSeq(text, 1, 13) = "Bot failure: "

(* C11: a valid response with an empty list is not an error (validation   *)
(* succeeds, no error text is produced); from an empty history, Telegram   *)
(* accepting everything, consecutive empty lists deliver the waiting text  *)
(* exactly once.                                                           *)
C11_EmptyListWaitsOnce ==
    /\ EmptyList(pass) =>
         /\ pass.class = "waiting" /\ pass.valid /\ ~pass.failed
         /\ \A i \in 1..Len(pass.attempts) : pass.attempts[i].text = WAITING_TEXT
    /\ ( /\ EmptyList(before) /\ before.verdict_before = ""
         /\ before.accepted_before = "" /\ AllAccepted(before)
         /\ EmptyList(pass) )
       => /\ before.attempts = <<Attempt(WAITING_TEXT, WAITING_TEXT, TRUE)>>
          /\ ~Tried(pass)
    /\ (EmptyList(pass) /\ pass.accepted_before = WAITING_TEXT) => ~Tried(pass)

C11_Witness ==
    /\ EmptyList(before) /\ before.verdict_before = ""
    /\ before.accepted_before = "" /\ Delivered(before)
    /\ EmptyList(pass)
    /\ pc = "sleep"

(* C12: a first entry with an unrecognized status makes the pass fail     *)
(* with the unknown-status error, no status verdict is sent, the error    *)
(* text is sent as a notification, and the cursor is unchanged.           *)
C12_UnknownStatusNotified ==
    UnknownStatus(pass) =>
        /\ pass.class = "error"
        /\ pass.candidate = "Bot failure: Unknown homework status in the API response"
        /\ \A i \in 1..Len(pass.attempts) : pass.attempts[i].candidate = pass.candidate
        /\ (pass.candidate # pass.accepted_before => TriedCandidate(pass))
        /\ current_timestamp = pass.from_date

(* C13: with a required configuration value missing the process exits     *)
(* before the loop: no fetch, no Telegram call and no sleep ever happens.  *)
C13_MissingConfigExits ==
    (\E k \in DOMAIN env : env[k] \in {"None", ""}) =>
        /\ pc \in {"start", "exited"}
        /\ log = <<>>
        /\ pass = NoPass
        /\ accepted = ""

C13_Witness ==
    /\ pc = "exited"
    /\ env["TELEGRAM_TOKEN"] = "token" /\ env["PRACTICUM_TOKEN"] = "token"
    /\ env["TELEGRAM_CHAT_ID"] = "None"

(* C14: on a 200 response whose body is not JSON, get_api_answer itself   *)
(* fails: nothing is returned to check_response, and the error of the     *)
(* pass is not the type mismatch check_response reports.                  *)
C14_NotJsonFailsInFetch ==
    NotJson(pass) =>
        /\ get_api_answer(pass.from_date, pass.reply).raised
        /\ pass.class = "error"
        /\ pass.candidate # "Bot failure: API response type error"

(* C15, as the claim has it: parse_status succeeds exactly for entries    *)
(* with a name and a status among pending, approved and rejected, and     *)
(* then returns the text made of the name and the table's text; a missing *)
(* field gives a missing-field error, another status the unknown-status   *)
(* error.                                                                  *)
ParseStatusAccepts(codes) ==
    call.fn = "parse_status" =>
        LET h == call.homework
            complete == {"homework_name", "status"} \subseteq h.keys
        IN  /\ ~result.raised <=> (complete /\ h.status \in codes)
            /\ ~result.raised =>
                 result.val = "The review status of work \"" \o h.homework_name
                              \o "\" changed. " \o HOMEWORK_VERDICTS(h.status)
            /\ "homework_name" \notin h.keys =>
                 /\ result.raised
                 /\ result.exc = "'The API response has no key \"homework_name\"!'"
            /\ ("homework_name" \in h.keys /\ "status" \notin h.keys) =>
                 /\ result.raised
                 /\ result.exc = "'The API response has no key \"status\"!'"
            /\ (complete /\ h.status \notin codes) =>
                 /\ result.raised
                 /\ result.exc = "Unknown homework status in the API response"

C15_ParseStatusPending == ParseStatusAccepts({"pending", "approved", "rejected"})

(* C15, amended: parse_status succeeds exactly for entries with a name    *)
(* and a status among reviewing, approved and rejected (the keys of       *)
(* HOMEWORK_VERDICTS); the rest as above.                                  *)
C15_ParseStatusReviewing == ParseStatusAccepts({"reviewing", "approved", "rejected"})

C15_Witness ==
    /\ call.fn = "parse_status"
    /\ call.homework.keys = {"homework_name", "status"}
    /\ call.homework.status = "pending"
    /\ result.raised

(* C16: check_response returns the list of entries exactly when the       *)
(* payload is a mapping with the keys homeworks and current_date whose    *)
(* homeworks is a list, empty or not; otherwise it fails with one of its  *)
(* shape errors.                                                           *)
C16_CheckResponseShape ==
    call.fn = "check_response" =>
        LET r == call.response
            shaped == /\ r.type = "dict"
                      /\ {"homeworks", "current_date"} \subseteq r.keys
                      /\ r.homeworks.type = "list"
        IN  /\ ~result.raised <=> shaped
            /\ ~result.raised => result.val = r.homeworks.items
            /\ result.raised =>
                 result.exc \in {"API response type error",
                                 "'Empty response from API'",
                                 "Homeworks is not a list"}

C16_Witness ==
    /\ call.fn = "check_response"
    /\ call.response.type = "dict"
    /\ call.response.keys = {"homeworks", "current_date"}
    /\ call.response.homeworks = ListValue(<<>>)
    /\ ~result.raised /\ result.val = <<>>

(* C17: for a valid response with a non-empty list the outcome of the     *)
(* pass (candidate, error, attempts, resulting history) depends on the    *)
(* first entry only: responses with the same first entry and current_date *)
(* and different later entries give the same outcome.                     *)
C17_OnlyFirstEntry ==
    call.fn = "main_pass" => result.a = result.b

C17_Witness ==
    /\ call.fn = "main_pass"
    /\ Len(call.a.homeworks.items) = 1
    /\ Len(call.b.homeworks.items) = 3
    /\ call.history = <<"", FALSE>>
    /\ result.b.class = "status"
    /\ result.b.prev_verdict_sent
    /\ result.b.prev_verdict = result.b.candidate

(* C18: a pass makes at most one call of bot.send_message; the waiting    *)
(* text is tried only in a pass whose validated list is empty, never in a *)
(* pass that already tried a status verdict.                               *)
C18_OneAttemptPerPass ==
    Happened(pass) =>
        /\ Len(pass.attempts) <= 1
        /\ (\E i \in 1..Len(pass.attempts) : pass.attempts[i].text = WAITING_TEXT)
            => EmptyList(pass)

(* C19: prev_verdict_sent starts False and, once True, is never reset;    *)
(* from then on no pass tries the waiting text or an error text, only     *)
(* status verdicts of non-empty lists.                                     *)
C19_SentFlagLatches ==
    [][ /\ (pc = "start" => ~prev_verdict_sent)
        /\ (prev_verdict_sent => prev_verdict_sent')
        /\ (prev_verdict_sent /\ pc = "poll" /\ pc' # "poll") =>
              \A i \in 1..Len(pass'.attempts) :
                  /\ pass'.attempts[i].text # WAITING_TEXT
                  /\ ~IsErrorText(pass'.attempts[i].text)
                  /\ pass'.class = "status"
                  /\ pass'.attempts[i].candidate = pass'.candidate
                  /\ Validated(pass') /\ ~EmptyList(pass') ]_vars

C19_Witness ==
    /\ prev_verdict_sent
    /\ before.class = "waiting" /\ Delivered(before)
    /\ pass.class = "error" /\ ~Tried(pass)
    /\ pc = "poll"
====
